---- MODULE Spec2Model ----
(***************************************************************************)
(* Purchase / inventory workflow of the museum REST API.                   *)
(*                                                                         *)
(* The record store (MongoDB through mongoose) is modelled by two          *)
(* collections, tickets and purchases.  Every request handler is a         *)
(* process slot whose steps are the handler's store calls: the code        *)
(* between two awaits is one step, so that handlers interleave exactly     *)
(* where the event loop lets them.  A mongoose document is a snapshot      *)
(* taken by findById/findOne; save() writes only the paths the handler     *)
(* modified, with the values computed from the snapshot.                   *)
(*                                                                         *)
(* Amounts are integers (FCFA); the prices drawn are multiples of 50 so    *)
(* that the 18% tax is an integer as well.  Time is counted in days.       *)
(*                                                                         *)
(* No route writes the status 'confirmed': ConfirmPayment stands for the   *)
(* write at the store that confirms a payment outside this program.        *)
(***************************************************************************)
EXTENDS Integers, Sequences, FiniteSets, TLC

\* ---------------------------------------------------------------- bounds
MaxPurchases == 2      \* purchase records the store can hold
MaxItems     == 2      \* lines of one purchase request
MaxQty       == 2      \* largest quantity of one line

\* ------------------------------------------------------ program constants
Unlimited    == -1     \* stock sentinel
TaxPercent   == 18     \* tax = subtotal * 0.18
ValidityDays == 30     \* validUntil = now + 30 days
MaxPrice     == 50000  \* validateTicket: price in 0..50000

\* ------------------------------------------------------------ input sets
TicketIds   == {1, 2}
Procs       == {"h1", "h2"}
Users       == {"alice", "bob"}
TicketInputs == {[price |-> 1000, stock |-> 5], [price |-> 500, stock |-> 1],
                 [price |-> 200, stock |-> Unlimited]}
Suffixes    == {"A", "B"}
Reasons     == {"r"}
Statuses    == {"pending", "confirmed", "cancelled", "refunded", "expired"}

Lines     == [ticketId : TicketIds, quantity : 1..MaxQty]
ItemLists == UNION {[1..n -> Lines] : n \in 1..MaxItems}

VARIABLES tickets, purchases, req, now, users

vars == <<tickets, purchases, req, now, users>>

\* -------------------------------------------------------------- accounts
\* A document of the users collection; lastLogin is NoLogin until the
\* first login.
NoLogin == -1

newUser(email, password, role) ==
  [email |-> email, password |-> password, role |-> role,
   isActive |-> TRUE, lastLogin |-> NoLogin]

\* the accounts of the store before the first request: an administrator, an
\* administrator whose account was deactivated, and two users
InitialUsers ==
  <<newUser("admin", "pw", "admin"),
    [newUser("retired", "pw", "admin") EXCEPT !.isActive = FALSE],
    newUser("alice", "pw", "user"),
    newUser("bob", "pw", "user")>>

\* --------------------------------------------------------------- tickets
\* A slot of the tickets collection: st is "none" while the id was never
\* allocated, "live" while the document exists, "deleted" afterwards.
NoTicket(s) == [st |-> s, price |-> 0, stock |-> 0, isAvailable |-> FALSE,
                validityDays |-> 0, purchaseCount |-> 0, revenue |-> 0]

DefaultValidityDays == 30

newTicket(price, stock) ==
  [st |-> "live", price |-> price, stock |-> stock, isAvailable |-> TRUE,
   validityDays |-> DefaultValidityDays, purchaseCount |-> 0, revenue |-> 0]

Live(t) == tickets[t].st = "live"

\* mutant: the isAvailable flag is not read
isAvailableWhenInStock(ticket, quantity) ==
  IF ticket.stock = Unlimited THEN TRUE ELSE ticket.stock >= quantity

\* mutant: the stock is not compared with the quantity
isAvailableIgnoringStock(ticket, quantity) == ticket.isAvailable

isAvailableForPurchase(ticket, quantity) ==
  IF ~ticket.isAvailable THEN FALSE
  ELSE IF ticket.stock = Unlimited THEN TRUE
  ELSE ticket.stock >= quantity

\* mutant: the stock is decremented without the comparison
reserveStockUnchecked(ticket, quantity) ==
  IF ticket.stock = Unlimited THEN [saves |-> FALSE, stock |-> ticket.stock]
  ELSE [saves |-> TRUE, stock |-> ticket.stock - quantity]

\* outcome of reserveStock on a document: the new in-memory stock and
\* whether a save() is issued
reserveStock(ticket, quantity) ==
  IF ticket.stock = Unlimited THEN [saves |-> FALSE, stock |-> ticket.stock]
  ELSE IF ticket.stock >= quantity
       THEN [saves |-> TRUE, stock |-> ticket.stock - quantity]
       ELSE [saves |-> FALSE, stock |-> ticket.stock]

\* mutant: one unit is given back whatever the quantity
releaseStockOneUnit(ticket, quantity) ==
  IF ticket.stock = Unlimited THEN [saves |-> FALSE, stock |-> ticket.stock]
  ELSE [saves |-> TRUE, stock |-> ticket.stock + 1]

\* mutant: the unlimited sentinel is not tested
releaseStockNoSentinel(ticket, quantity) ==
  [saves |-> TRUE, stock |-> ticket.stock + quantity]

releaseStock(ticket, quantity) ==
  IF ticket.stock = Unlimited THEN [saves |-> FALSE, stock |-> ticket.stock]
  ELSE [saves |-> TRUE, stock |-> ticket.stock + quantity]

updateStats(ticket, quantity, totalPrice) ==
  [purchaseCount |-> ticket.purchaseCount + quantity,
   revenue       |-> ticket.revenue + totalPrice]

\* ------------------------------------------------------------- purchases
SumTotals(items) ==
  LET RECURSIVE S(_)
      S(k) == IF k = 0 THEN 0 ELSE S(k - 1) + items[k].totalPrice
  IN S(Len(items))

\* mutant: a rate of 8%
taxOfWrongRate(subtotal) == (subtotal * 8) \div 100

taxOf(subtotal) == (subtotal * TaxPercent) \div 100

\* mutant: the last day of validity counts as expired
isExpiredOnLastDay(purchase, t) == t >= purchase.validUntil

isExpired(purchase, t) == t > purchase.validUntil

validatePurchase(purchase, t) ==
  IF purchase.status # "confirmed"
  THEN [valid |-> FALSE, error |-> "Achat non confirme"]
  ELSE IF isExpired(purchase, t)
       THEN [valid |-> FALSE, error |-> "Achat expire"]
       ELSE [valid |-> TRUE, error |-> ""]

\* --------------------------------------------------------------- requests
NoDoc == NoTicket("none")

NoCode == <<0, "">>
NoBody == [price |-> 0, hasStock |-> FALSE, stock |-> 0]

NoUserId == "none"

Idle == [pc |-> "idle", op |-> "none", user |-> "nobody", id |-> 0,
         customer |-> NoUserId, password |-> "",
         items |-> <<>>, i |-> 0, processed |-> <<>>, subtotal |-> 0,
         code |-> NoCode, doc |-> NoDoc, body |-> NoBody,
         notes |-> <<>>, reason |-> "",
         resp |-> 0, msg |-> "", data |-> {}]

\* the handler answered: the response stays visible with the purchase id,
\* the line and the code the request was about; the other locals are gone
Done(r, status) ==
  [Idle EXCEPT !.pc = "done", !.op = r.op, !.resp = status, !.id = r.id,
               !.i = r.i, !.code = r.code, !.msg = r.msg]

Init ==
  /\ tickets = [t \in TicketIds |-> NoTicket("none")]
  /\ purchases = <<>>
  /\ req = [p \in Procs |-> Idle]
  /\ now = 0
  /\ users = InitialUsers

\* a handler slot is free before its first request and after a response
Free(p) == req[p].pc \in {"idle", "done"}

\* purchase requests that passed the middleware and have not inserted yet
Unsaved == {p \in Procs : req[p].pc \in {"validate", "save"}}

\* ------------------------------------------------- admin: ticket routes
\* Who sends a request: users with the role 'user', an active admin, an
\* admin whose account was deactivated, and a caller without a valid token.
Callers == Users \cup {"admin", "retired", "anonymous"}

\* the account a caller's token names: its position in the collection, or 0
\* when the caller has no valid token or the account does not exist
accountOf(caller) ==
  IF \E k \in 1..Len(users) : users[k].email = caller
  THEN CHOOSE k \in 1..Len(users) : users[k].email = caller
  ELSE 0

roleOf(caller) == users[accountOf(caller)].role

isActive(caller) == users[accountOf(caller)].isActive

\* mutant: the isActive flag of the account is not read
authenticateAnyAccount(caller) ==
  IF accountOf(caller) = 0 THEN 401 ELSE 0

\* authenticate: the status it answers, or 0 when it calls next()
authenticate(caller) ==
  IF accountOf(caller) = 0 THEN 401
  ELSE IF ~isActive(caller) THEN 401
  ELSE 0

\* mutant: any authenticated caller passes
requireAdminAnyRole(caller) == 0

\* requireAdmin, after authenticate: 403, or 0 when it calls next()
requireAdmin(caller) == IF roleOf(caller) # "admin" THEN 403 ELSE 0

\* the middleware chain authenticate, requireAdmin of the ticket routes
adminGate(caller) ==
  IF authenticate(caller) # 0 THEN authenticate(caller)
  ELSE requireAdmin(caller)

\* the answer of an admin route keeps req.user
AdminDone(r, status) == [Done(r, status) EXCEPT !.user = r.user]

\* POST /api/tickets
\* validateTicket: the rules on price and on the optional stock
validateTicket(price, hasStock, stock) ==
  /\ price >= 0 /\ price <= MaxPrice
  /\ (hasStock => stock >= -1)

\* ids are the identifiers the store can still allocate
CreateTicket(p, caller, price, stock, ids) ==
  /\ Free(p)
  /\ IF adminGate(caller) # 0
     THEN /\ req' = [req EXCEPT ![p] =
                       AdminDone([Idle EXCEPT !.op = "ticket", !.user = caller],
                                 adminGate(caller))]
          /\ UNCHANGED tickets
     ELSE \E t \in ids :
       /\ tickets[t].st = "none"
       /\ \A s \in ids : s < t => tickets[s].st # "none"
       /\ LET r == [Idle EXCEPT !.op = "ticket", !.user = caller, !.id = t]
          IN IF validateTicket(price, TRUE, stock)
             THEN /\ tickets' = [tickets EXCEPT ![t] = newTicket(price, stock)]
                  /\ req' = [req EXCEPT ![p] = AdminDone(r, 201)]
             ELSE /\ req' = [req EXCEPT ![p] = AdminDone(r, 400)]
                  /\ UNCHANGED tickets
  /\ UNCHANGED <<purchases, now, users>>

\* PUT /api/tickets/:id : validateTicket, then findById; stock is optional
\* in the body
UpdateTicket(p, caller, t, price, hasStock, stock) ==
  /\ Free(p)
  /\ LET r == [Idle EXCEPT !.op = "ticket", !.user = caller, !.id = t]
     IN IF adminGate(caller) # 0
        THEN req' = [req EXCEPT ![p] = AdminDone(r, adminGate(caller))]
        ELSE IF ~validateTicket(price, hasStock, stock)
        THEN req' = [req EXCEPT ![p] = AdminDone(r, 400)]
        ELSE IF Live(t)
        THEN req' = [req EXCEPT ![p] =
                       [r EXCEPT !.pc = "updateWrite",
                                 !.body = [price |-> price,
                                           hasStock |-> hasStock,
                                           stock |-> stock]]]
        ELSE req' = [req EXCEPT ![p] = AdminDone(r, 404)]
  /\ UNCHANGED <<tickets, purchases, now, users>>

\* mutant: the update also reprices the lines of the stored purchases
UpdateWriteReprices(p) ==
  /\ req[p].pc = "updateWrite"
  /\ LET r == req[p]
     IN /\ tickets' = IF Live(r.id)
                      THEN [tickets EXCEPT
                              ![r.id].price = r.body.price,
                              ![r.id].stock = IF r.body.hasStock
                                              THEN r.body.stock ELSE @]
                      ELSE tickets
        /\ purchases' =
             [k \in 1..Len(purchases) |->
                [purchases[k] EXCEPT !.items =
                   [n \in 1..Len(purchases[k].items) |->
                      LET item == purchases[k].items[n]
                      IN IF item.ticketId = r.id
                         THEN [item EXCEPT
                                 !.unitPrice = r.body.price,
                                 !.totalPrice = r.body.price * item.quantity]
                         ELSE item]]]
        /\ req' = [req EXCEPT ![p] = Done(r, 200)]
  /\ UNCHANGED <<now, users>>

\* findByIdAndUpdate(id, req.body): one write at the store, which finds
\* nothing when the ticket was deleted since findById
UpdateWrite(p) ==
  /\ req[p].pc = "updateWrite"
  /\ LET r == req[p]
     IN /\ tickets' = IF Live(r.id)
                      THEN [tickets EXCEPT
                              ![r.id].price = r.body.price,
                              ![r.id].stock = IF r.body.hasStock
                                              THEN r.body.stock ELSE @]
                      ELSE tickets
        /\ req' = [req EXCEPT ![p] = Done(r, 200)]
  /\ UNCHANGED <<purchases, now, users>>

\* DELETE /api/tickets/:id : findById
DeleteTicket(p, caller, t) ==
  /\ Free(p)
  /\ LET r == [Idle EXCEPT !.op = "ticket", !.user = caller, !.id = t]
     IN IF adminGate(caller) # 0
        THEN req' = [req EXCEPT ![p] = AdminDone(r, adminGate(caller))]
        ELSE IF Live(t)
        THEN req' = [req EXCEPT ![p] = [r EXCEPT !.pc = "deleteWrite"]]
        ELSE req' = [req EXCEPT ![p] = AdminDone(r, 404)]
  /\ UNCHANGED <<tickets, purchases, now, users>>

\* findByIdAndDelete
DeleteWrite(p) ==
  /\ req[p].pc = "deleteWrite"
  /\ LET r == req[p]
     IN /\ tickets' = IF Live(r.id)
                      THEN [tickets EXCEPT ![r.id] = NoTicket("deleted")]
                      ELSE tickets
        /\ req' = [req EXCEPT ![p] = Done(r, 200)]
  /\ UNCHANGED <<purchases, now, users>>

\* PATCH /api/tickets/:id/toggle-availability : findById
ToggleFind(p, caller, t) ==
  /\ Free(p)
  /\ LET r == [Idle EXCEPT !.op = "ticket", !.user = caller, !.id = t]
     IN IF adminGate(caller) # 0
        THEN req' = [req EXCEPT ![p] = AdminDone(r, adminGate(caller))]
        ELSE IF Live(t)
        THEN req' = [req EXCEPT ![p] =
                 [r EXCEPT !.pc = "toggleSave",
                           !.doc = [tickets[t] EXCEPT
                                      !.isAvailable = ~tickets[t].isAvailable]]]
        ELSE req' = [req EXCEPT ![p] = AdminDone(r, 404)]
  /\ UNCHANGED <<tickets, purchases, now, users>>

\* ... then ticket.save() of the flipped flag
ToggleSave(p) ==
  /\ req[p].pc = "toggleSave"
  /\ LET r == req[p]
     IN IF Live(r.id)
        THEN /\ tickets' = [tickets EXCEPT
                              ![r.id].isAvailable = r.doc.isAvailable]
             /\ req' = [req EXCEPT ![p] = Done(r, 200)]
        ELSE /\ req' = [req EXCEPT ![p] = Done(r, 500)]
             /\ UNCHANGED tickets
  /\ UNCHANGED <<purchases, now, users>>

\* ----------------------------------------------- POST /api/purchases
\* the request passed authenticate, requireUser and validatePurchase, which
\* has no rule for customer.userId: the body carries one (customer) or not
PostPurchase(p, u, customer, items, cap) ==
  /\ Free(p)
  /\ Len(purchases) + Cardinality(Unsaved) < cap
  /\ req' = [req EXCEPT ![p] =
               [Idle EXCEPT !.pc = "validate", !.op = "purchase",
                            !.user = u, !.customer = customer,
                            !.items = items, !.i = 1]]
  /\ UNCHANGED <<tickets, purchases, now, users>>

\* a body whose customer object has no userId
StartPurchase(p, u, items, cap) == PostPurchase(p, u, NoUserId, items, cap)

\* customer: { userId: req.user.id, ...customer }: a userId of the body
\* replaces the one written before the spread
customerOf(r) == IF r.customer = NoUserId THEN r.user ELSE r.customer

processedItem(t, ticket, quantity) ==
  [ticketId |-> t, quantity |-> quantity, unitPrice |-> ticket.price,
   totalPrice |-> ticket.price * quantity]

\* one turn of the validation loop; after the last line the totals and the
\* redemption code are computed before the handler awaits the encoder
ValidateLine(p) ==
  /\ req[p].pc = "validate"
  /\ LET r      == req[p]
         item   == r.items[r.i]
         ticket == tickets[item.ticketId]
     IN IF ~Live(item.ticketId)
        THEN req' = [req EXCEPT ![p] = Done(r, 400)]
        ELSE IF ~isAvailableForPurchase(ticket, item.quantity)
        THEN req' = [req EXCEPT ![p] = Done(r, 400)]
        ELSE LET q == [r EXCEPT
                         !.processed = Append(@, processedItem(item.ticketId,
                                                  ticket, item.quantity)),
                         !.subtotal = @ + ticket.price * item.quantity]
             IN IF r.i < Len(r.items)
                THEN req' = [req EXCEPT ![p] = [q EXCEPT !.i = r.i + 1]]
                ELSE \E sfx \in Suffixes :
                       req' = [req EXCEPT ![p] =
                                 [q EXCEPT !.pc = "save", !.i = 0,
                                           !.code = <<now, sfx>>]]
  /\ UNCHANGED <<tickets, purchases, now, users>>

\* QRCode.toDataURL rejects
EncodingFailed(p) ==
  /\ req[p].pc = "save"
  /\ req' = [req EXCEPT ![p] = Done(req[p], 500)]
  /\ UNCHANGED <<tickets, purchases, now, users>>

\* mutant: the tax is left out of the total
newPurchaseNoTax(r, t) ==
  [userId |-> customerOf(r), items |-> r.processed, subtotal |-> r.subtotal,
   tax |-> taxOf(r.subtotal), discount |-> 0,
   total |-> r.subtotal,
   status |-> "pending", qrCode |-> r.code, notes |-> <<>>,
   validFrom |-> t, validUntil |-> t + ValidityDays]

\* mutant: the validity of the first ticket bought sets the end date
newPurchaseTicketValidity(r, t) ==
  [userId |-> customerOf(r), items |-> r.processed, subtotal |-> r.subtotal,
   tax |-> taxOf(r.subtotal), discount |-> 0,
   total |-> r.subtotal + taxOf(r.subtotal),
   status |-> "pending", qrCode |-> r.code, notes |-> <<>>,
   validFrom |-> t,
   validUntil |-> t + tickets[r.processed[1].ticketId].validityDays]

newPurchase(r, t) ==
  [userId |-> customerOf(r), items |-> r.processed, subtotal |-> r.subtotal,
   tax |-> taxOf(r.subtotal), discount |-> 0,
   total |-> r.subtotal + taxOf(r.subtotal),
   status |-> "pending", qrCode |-> r.code, notes |-> <<>>,
   validFrom |-> t, validUntil |-> t + ValidityDays]

\* mutant: no unique index on qrCode
CodeNeverTaken(code) == FALSE

CodeTaken(code) == \E k \in 1..Len(purchases) : purchases[k].qrCode = code

\* new Purchase(...) ; purchase.save(): the unique index on qrCode refuses a
\* stored code with the error E11000, which the route logs before its 500
SavePurchase(p) ==
  /\ req[p].pc = "save"
  /\ LET r == req[p]
     IN IF CodeTaken(r.code)
        THEN /\ req' = [req EXCEPT ![p] =
                          Done([r EXCEPT !.msg = "E11000 duplicate key"], 500)]
             /\ UNCHANGED purchases
        ELSE /\ purchases' = Append(purchases, newPurchase(r, now))
             /\ req' = [req EXCEPT ![p] =
                          [r EXCEPT !.pc = "reserve", !.i = 1,
                                    !.id = Len(purchases) + 1]]
  /\ UNCHANGED <<tickets, now, users>>

\* after a line of the commit loop
NextLine(r, status) ==
  IF r.i < Len(r.processed)
  THEN [r EXCEPT !.pc = "reserve", !.i = r.i + 1, !.doc = NoDoc]
  ELSE Done(r, status)

\* mutant: a missing ticket makes the handler remove the record it inserted
ReserveFetchRollsBack(p) ==
  /\ req[p].pc = "reserve"
  /\ LET r      == req[p]
         item   == r.processed[r.i]
         ticket == tickets[item.ticketId]
         rs     == reserveStock(ticket, item.quantity)
     IN IF ~Live(item.ticketId)
        THEN /\ req' = [req EXCEPT ![p] = Done(r, 500)]
             /\ purchases' = SubSeq(purchases, 1, r.id - 1)
        ELSE /\ req' = [req EXCEPT ![p] =
                [r EXCEPT !.pc = IF rs.saves THEN "reserveSave"
                                 ELSE "statsSave",
                          !.doc = [ticket EXCEPT !.stock = rs.stock]]]
             /\ UNCHANGED purchases
  /\ UNCHANGED <<tickets, now, users>>

\* commit loop: Ticket.findById, then reserveStock on the document
ReserveFetch(p) ==
  /\ req[p].pc = "reserve"
  /\ LET r      == req[p]
         item   == r.processed[r.i]
         ticket == tickets[item.ticketId]
         rs     == reserveStock(ticket, item.quantity)
     IN IF ~Live(item.ticketId)
        THEN req' = [req EXCEPT ![p] = Done(r, 500)]
        ELSE req' = [req EXCEPT ![p] =
                [r EXCEPT !.pc = IF rs.saves THEN "reserveSave"
                                 ELSE "statsSave",
                          !.doc = [ticket EXCEPT !.stock = rs.stock]]]
  /\ UNCHANGED <<tickets, purchases, now, users>>

\* the save() issued by reserveStock
ReserveSave(p) ==
  /\ req[p].pc = "reserveSave"
  /\ LET r == req[p]
         t == r.processed[r.i].ticketId
     IN IF Live(t)
        THEN /\ tickets' = [tickets EXCEPT ![t].stock = r.doc.stock]
             /\ req' = [req EXCEPT ![p].pc = "statsSave"]
        ELSE /\ req' = [req EXCEPT ![p] = Done(r, 500)]
             /\ UNCHANGED tickets
  /\ UNCHANGED <<purchases, now, users>>

\* updateStats on the same document and its save()
StatsSave(p) ==
  /\ req[p].pc = "statsSave"
  /\ LET r    == req[p]
         item == r.processed[r.i]
         st   == updateStats(r.doc, item.quantity, item.totalPrice)
     IN IF Live(item.ticketId)
        THEN /\ tickets' = [tickets EXCEPT
                   ![item.ticketId].purchaseCount = st.purchaseCount,
                   ![item.ticketId].revenue = st.revenue]
             /\ req' = [req EXCEPT ![p] = NextLine(r, 201)]
        ELSE /\ req' = [req EXCEPT ![p] = Done(r, 500)]
             /\ UNCHANGED tickets
  /\ UNCHANGED <<purchases, now, users>>

\* ------------------------------------- PATCH /api/purchases/:id/cancel
StartCancel(p, u, id, reason) ==
  /\ Free(p)
  /\ req' = [req EXCEPT ![p] =
               [Idle EXCEPT !.pc = "cancelFind", !.op = "cancel",
                            !.user = u, !.id = id, !.reason = reason]]
  /\ UNCHANGED <<tickets, purchases, now, users>>

\* Purchase.findOne({_id, 'customer.userId'})
\* mutant: an admin passes the ownership filter
OwnedOrAdmin(id, u) ==
  id \in 1..Len(purchases) /\ (purchases[id].userId = u \/ u = "admin")

Owned(id, u) == id \in 1..Len(purchases) /\ purchases[id].userId = u

cancelNote(reason) == [tag |-> "Annule", reason |-> reason]

\* mutant: any status can be cancelled
cancelPurchaseAnyStatus(purchase, reason) ==
  [ok |-> TRUE, status |-> "cancelled",
   notes |-> Append(purchase.notes, cancelNote(reason))]

\* outcome of cancelPurchase on a document
cancelPurchase(purchase, reason) ==
  IF purchase.status = "confirmed"
  THEN [ok |-> TRUE, status |-> "cancelled",
        notes |-> Append(purchase.notes, cancelNote(reason))]
  ELSE [ok |-> FALSE, status |-> purchase.status, notes |-> purchase.notes]

\* findOne, then cancelPurchase on the document found
CancelFind(p) ==
  /\ req[p].pc = "cancelFind"
  /\ LET r == req[p]
     IN IF ~Owned(r.id, r.user)
        THEN req' = [req EXCEPT ![p] = Done(r, 404)]
        ELSE LET c == cancelPurchase(purchases[r.id], r.reason)
             IN IF c.ok
                THEN req' = [req EXCEPT ![p] =
                               [r EXCEPT !.pc = "cancelSave",
                                         !.notes = c.notes]]
                ELSE req' = [req EXCEPT ![p] = Done(r, 500)]
  /\ UNCHANGED <<tickets, purchases, now, users>>

\* the save() issued by cancelPurchase
CancelSave(p) ==
  /\ req[p].pc = "cancelSave"
  /\ LET r == req[p]
     IN /\ purchases' = [purchases EXCEPT ![r.id].status = "cancelled",
                                          ![r.id].notes = r.notes]
        /\ req' = [req EXCEPT ![p] =
                     [r EXCEPT !.pc = "release", !.i = 1, !.notes = <<>>]]
  /\ UNCHANGED <<tickets, now, users>>

\* after a line of the release loop
NextRelease(r) ==
  IF r.i < Len(purchases[r.id].items)
  THEN [r EXCEPT !.pc = "release", !.i = r.i + 1, !.doc = NoDoc]
  ELSE Done(r, 200)

\* release loop: Ticket.findById, then releaseStock when the ticket exists
ReleaseFetch(p) ==
  /\ req[p].pc = "release"
  /\ LET r      == req[p]
         item   == purchases[r.id].items[r.i]
         ticket == tickets[item.ticketId]
         rs     == releaseStock(ticket, item.quantity)
     IN IF Live(item.ticketId) /\ rs.saves
        THEN req' = [req EXCEPT ![p] =
                       [r EXCEPT !.pc = "releaseSave",
                                 !.doc = [ticket EXCEPT !.stock = rs.stock]]]
        ELSE req' = [req EXCEPT ![p] = NextRelease(r)]
  /\ UNCHANGED <<tickets, purchases, now, users>>

\* the save() issued by releaseStock
ReleaseSave(p) ==
  /\ req[p].pc = "releaseSave"
  /\ LET r == req[p]
         t == purchases[r.id].items[r.i].ticketId
     IN IF Live(t)
        THEN /\ tickets' = [tickets EXCEPT ![t].stock = r.doc.stock]
             /\ req' = [req EXCEPT ![p] = NextRelease(r)]
        ELSE /\ req' = [req EXCEPT ![p] = Done(r, 500)]
             /\ UNCHANGED tickets
  /\ UNCHANGED <<purchases, now, users>>

\* ------------------------------------------ POST /api/purchases/validate
\* mutant: the lookup finds nothing
FindNothing(code) == 0

FindByCode(code) ==
  IF CodeTaken(code)
  THEN CHOOSE k \in 1..Len(purchases) : purchases[k].qrCode = code
  ELSE 0

\* mutant: a valid code is used up by its validation
ValidateCodeOnce(p, code) ==
  /\ Free(p)
  /\ LET k == FindByCode(code)
         r == [Idle EXCEPT !.op = "validate", !.id = k, !.code = code]
     IN IF code = NoCode \/ k = 0
        THEN /\ req' = [req EXCEPT ![p] = Done(r, IF code = NoCode THEN 400 ELSE 404)]
             /\ UNCHANGED purchases
        ELSE IF ~validatePurchase(purchases[k], now).valid
        THEN /\ req' = [req EXCEPT ![p] = Done(r, 400)]
             /\ UNCHANGED purchases
        ELSE /\ req' = [req EXCEPT ![p] = Done(r, 200)]
             /\ purchases' = [purchases EXCEPT ![k].status = "expired"]
  /\ UNCHANGED <<tickets, now, users>>

ValidateCode(p, code) ==
  /\ Free(p)
  /\ LET k == FindByCode(code)
         r == [Idle EXCEPT !.op = "validate", !.id = k, !.code = code]
     IN IF code = NoCode
        THEN req' = [req EXCEPT ![p] =
                       Done([r EXCEPT !.msg = "QR code requis"], 400)]
        ELSE IF k = 0
        THEN req' = [req EXCEPT ![p] =
                       Done([r EXCEPT !.msg = "QR code invalide"], 404)]
        ELSE LET v == validatePurchase(purchases[k], now)
             IN IF ~v.valid
                THEN req' = [req EXCEPT ![p] =
                               Done([r EXCEPT !.msg = v.error], 400)]
                ELSE req' = [req EXCEPT ![p] =
                               Done([r EXCEPT !.msg = "Billet valide"], 200)]
  /\ UNCHANGED <<tickets, purchases, now, users>>

\* -------------------------------- GET /api/purchases, /api/purchases/:id
\* callers that pass authenticate and requireUser
Readers == Users \cup {"admin"}

\* Purchase.findOne({_id, 'customer.userId': req.user.id})
GetPurchase(p, u, id) ==
  /\ Free(p)
  /\ LET r == [Idle EXCEPT !.op = "get", !.id = id]
     IN req' = [req EXCEPT ![p] =
                  [Done(r, IF Owned(id, u) THEN 200 ELSE 404)
                     EXCEPT !.user = u]]
  /\ UNCHANGED <<tickets, purchases, now, users>>

\* Purchase.find({'customer.userId': req.user.id}): data holds the ids of
\* the records returned
ListPurchases(p, u) ==
  /\ Free(p)
  /\ LET r == [Idle EXCEPT !.op = "list"]
     IN req' = [req EXCEPT ![p] =
                  [Done(r, 200) EXCEPT
                     !.user = u,
                     !.data = {k \in 1..Len(purchases) : Owned(k, u)}]]
  /\ UNCHANGED <<tickets, purchases, now, users>>

\* ------------------------------------ GET /api/purchases/stats/overview
\* authenticate, then the role test of the handler; the counts are read-only
\* and the answer keeps the number of purchases counted
StatsOverview(p, caller) ==
  /\ Free(p)
  /\ LET r == [Idle EXCEPT !.op = "stats", !.user = caller]
     IN IF authenticate(caller) # 0
        THEN req' = [req EXCEPT ![p] = AdminDone(r, authenticate(caller))]
        ELSE IF roleOf(caller) # "admin"
        THEN req' = [req EXCEPT ![p] = AdminDone(r, 403)]
        ELSE req' = [req EXCEPT ![p] =
                       AdminDone([r EXCEPT !.i = Len(purchases)], 200)]
  /\ UNCHANGED <<tickets, purchases, now, users>>

\* ------------------------------------------------------------ environment
\* The payment is confirmed outside the routes: the stored status goes from
\* its default to 'confirmed' by a write at the store.
ConfirmPayment(id) ==
  /\ id \in 1..Len(purchases)
  /\ purchases[id].status = "pending"
  /\ purchases' = [purchases EXCEPT ![id].status = "confirmed"]
  /\ UNCHANGED <<tickets, req, now, users>>

\* codes a client may present: the issued ones, one never issued, or none
Codes == {purchases[k].qrCode : k \in 1..Len(purchases)}
           \cup {<<0, "Z">>, NoCode}

\* the purchase and cancellation handlers, from their second step on
Flow(p) ==
  \/ ValidateLine(p)
  \/ EncodingFailed(p)
  \/ SavePurchase(p)
  \/ ReserveFetch(p)
  \/ ReserveSave(p)
  \/ StatsSave(p)
  \/ CancelFind(p)
  \/ CancelSave(p)
  \/ ReleaseFetch(p)
  \/ ReleaseSave(p)

\* One request at a time, and one purchase record followed through its life:
\* tickets are created and toggled, a shopper buys, the payment is confirmed,
\* the code is presented, the purchase is cancelled.
Next ==
  \/ \E in \in TicketInputs : CreateTicket("h1", "admin", in.price, in.stock, TicketIds)
  \/ \E t \in TicketIds : ToggleFind("h1", "admin", t)
  \/ ToggleSave("h1")
  \/ \E items \in ItemLists : StartPurchase("h1", "alice", items, 1)
  \/ \E u \in Users, id \in {1, 2}, reason \in Reasons :
        StartCancel("h1", u, id, reason)
  \/ \E code \in Codes : ValidateCode("h1", code)
  \/ Flow("h1")
  \/ ConfirmPayment(1)

Spec == Init /\ [][Next]_vars

\* inputs of the interleaved runs
ConcTicketInputs == {[price |-> 1000, stock |-> 1],
                     [price |-> 1000, stock |-> Unlimited],
                     [price |-> 1000, stock |-> -2]}
ConcItemLists == {<<[ticketId |-> 1, quantity |-> 1]>>,
                  <<[ticketId |-> 1, quantity |-> 2]>>}

\* requests interleave between their store calls
NextConc ==
  \E p \in Procs :
    \/ \E in \in ConcTicketInputs : CreateTicket(p, "admin", in.price, in.stock, {1})
    \/ \E in \in ConcTicketInputs, hasStock \in BOOLEAN :
          UpdateTicket(p, "admin", 1, in.price, hasStock, in.stock)
    \/ DeleteTicket(p, "admin", 1)
    \/ UpdateWrite(p)
    \/ DeleteWrite(p)
    \/ \E items \in ConcItemLists :
          StartPurchase(p, "alice", items, MaxPurchases)
    \/ \E id \in 1..MaxPurchases, reason \in Reasons :
          StartCancel(p, "alice", id, reason)
    \/ Flow(p)
    \/ \E id \in 1..MaxPurchases : ConfirmPayment(id)

SpecConc == Init /\ [][NextConc]_vars

\* ------------------------------------------------ any store content
\* The handlers applied to a store that already holds one purchase record in
\* any state the schema allows, at any time around the end of its validity.
StoreStocks == {Unlimited, 0, 2}
StoreTimes  == {0, ValidityDays, ValidityDays + 1}

storedPurchase(status, discount, notes, ticket) ==
  [userId |-> "alice", items |-> <<processedItem(1, ticket, 1)>>,
   subtotal |-> ticket.price, tax |-> taxOf(ticket.price),
   discount |-> discount,
   total |-> ticket.price + taxOf(ticket.price) - discount,
   status |-> status, qrCode |-> <<0, "A">>, notes |-> notes,
   validFrom |-> 0, validUntil |-> ValidityDays]

InitStore ==
  /\ \E s \in StoreStocks, a \in BOOLEAN :
       tickets = [t \in TicketIds |->
                    IF t = 1 THEN [newTicket(500, s) EXCEPT !.isAvailable = a]
                    ELSE NoTicket("none")]
  /\ \E status \in Statuses, discount \in {0, 90}, notes \in {<<>>, <<"n">>} :
       purchases = <<storedPurchase(status, discount, notes,
                                    newTicket(500, Unlimited))>>
  /\ req = [p \in Procs |-> Idle]
  /\ now \in StoreTimes
  /\ users = InitialUsers

NextStore ==
  \/ \E code \in Codes : ValidateCode("h1", code)
  \/ \E u \in Readers, id \in {1, 2}, reason \in Reasons :
        StartCancel("h1", u, id, reason)
  \/ CancelFind("h1")
  \/ CancelSave("h1")
  \/ ReleaseFetch("h1")
  \/ ReleaseSave("h1")
  \/ \E u \in Readers, id \in {1, 2} : GetPurchase("h1", u, id)
  \/ \E u \in Readers : ListPurchases("h1", u)

SpecStore == InitStore /\ [][NextStore]_vars

\* ------------------------------------------------- the model methods
\* The methods of the Ticket and Purchase models called on a document just
\* read from the store, one call at a time: the call and the save() it
\* awaits are one step.  The answer keeps the document as it was read
\* (doc), the quantity (i) and what the method returned (msg).
MaxStock     == 4      \* releaseStock is not called above this stock
MethodStocks == {Unlimited, 0, 1, 2}
Quantities   == 1..(MaxQty + 1)

Returned(r, t, q, doc, value) ==
  [Done([r EXCEPT !.id = t, !.i = q, !.msg = value], 0) EXCEPT !.doc = doc]

CallIsAvailable(p, t, q) ==
  /\ Free(p) /\ Live(t)
  /\ LET r == [Idle EXCEPT !.op = "isAvailableForPurchase"]
         v == IF isAvailableForPurchase(tickets[t], q) THEN "true" ELSE "false"
     IN req' = [req EXCEPT ![p] = Returned(r, t, q, tickets[t], v)]
  /\ UNCHANGED <<tickets, purchases, now, users>>

CallReserveStock(p, t, q) ==
  /\ Free(p) /\ Live(t)
  /\ LET r  == [Idle EXCEPT !.op = "reserveStock"]
         rs == reserveStock(tickets[t], q)
         v  == IF rs.saves THEN "saved"
               ELSE IF tickets[t].stock = Unlimited THEN "true" ELSE "false"
     IN /\ req' = [req EXCEPT ![p] = Returned(r, t, q, tickets[t], v)]
        /\ tickets' = IF rs.saves THEN [tickets EXCEPT ![t].stock = rs.stock]
                      ELSE tickets
  /\ UNCHANGED <<purchases, now, users>>

CallReleaseStock(p, t, q) ==
  /\ Free(p) /\ Live(t)
  /\ tickets[t].stock + q <= MaxStock
  /\ LET r  == [Idle EXCEPT !.op = "releaseStock"]
         rs == releaseStock(tickets[t], q)
         v  == IF rs.saves THEN "saved" ELSE "true"
     IN /\ req' = [req EXCEPT ![p] = Returned(r, t, q, tickets[t], v)]
        /\ tickets' = IF rs.saves THEN [tickets EXCEPT ![t].stock = rs.stock]
                      ELSE tickets
  /\ UNCHANGED <<purchases, now, users>>

refundNote(reason) == [tag |-> "Rembourse", reason |-> reason]

\* mutant: a cancelled purchase cannot be refunded
refundPurchaseConfirmedOnly(purchase, reason) ==
  IF purchase.status = "confirmed"
  THEN [ok |-> TRUE, status |-> "refunded",
        notes |-> Append(purchase.notes, refundNote(reason))]
  ELSE [ok |-> FALSE, status |-> purchase.status, notes |-> purchase.notes]

\* outcome of refundPurchase on a document
refundPurchase(purchase, reason) ==
  IF purchase.status = "confirmed" \/ purchase.status = "cancelled"
  THEN [ok |-> TRUE, status |-> "refunded",
        notes |-> Append(purchase.notes, refundNote(reason))]
  ELSE [ok |-> FALSE, status |-> purchase.status, notes |-> purchase.notes]

\* no route calls refundPurchase; the call is made on a stored document
CallRefundPurchase(p, id, reason) ==
  /\ Free(p) /\ id \in 1..Len(purchases)
  /\ LET r  == [Idle EXCEPT !.op = "refundPurchase", !.reason = reason]
         rf == refundPurchase(purchases[id], reason)
         v  == IF rf.ok THEN "saved" ELSE "rejected"
     IN /\ req' = [req EXCEPT ![p] =
                     [Returned(r, id, 0, NoDoc, v) EXCEPT !.reason = reason]]
        /\ purchases' = IF rf.ok
                        THEN [purchases EXCEPT ![id].status = rf.status,
                                               ![id].notes = rf.notes]
                        ELSE purchases
  /\ UNCHANGED <<tickets, now, users>>

InitMethods ==
  /\ \E s \in MethodStocks, a \in BOOLEAN :
       tickets = [t \in TicketIds |->
                    IF t = 1 THEN [newTicket(500, s) EXCEPT !.isAvailable = a]
                    ELSE NoTicket("none")]
  /\ \E status \in Statuses, notes \in {<<>>, <<"n">>} :
       purchases = <<storedPurchase(status, 0, notes,
                                    newTicket(500, Unlimited))>>
  /\ req = [p \in Procs |-> Idle]
  /\ now = 0
  /\ users = InitialUsers

NextMethods ==
  \/ \E q \in Quantities : CallIsAvailable("h1", 1, q)
  \/ \E q \in Quantities : CallReserveStock("h1", 1, q)
  \/ \E q \in Quantities : CallReleaseStock("h1", 1, q)
  \/ \E reason \in Reasons : CallRefundPurchase("h1", 1, reason)

SpecMethods == InitMethods /\ [][NextMethods]_vars

\* ------------------------------------------------ sales on one ticket
\* Purchases and cancellations of two handlers interleaved on one ticket
\* that no admin request touches: the ticket keeps its price, which tells
\* the stock it was created with (createdStock).
InitSales ==
  /\ \E in \in TicketInputs :
       tickets = [t \in TicketIds |->
                    IF t = 1 THEN newTicket(in.price, in.stock)
                    ELSE NoTicket("none")]
  /\ purchases = <<>>
  /\ req = [p \in Procs |-> Idle]
  /\ now = 0
  /\ users = InitialUsers

NextSales ==
  \E p \in Procs :
    \/ \E items \in ConcItemLists :
          StartPurchase(p, "alice", items, MaxPurchases)
    \/ \E id \in 1..MaxPurchases, reason \in Reasons :
          StartCancel(p, "alice", id, reason)
    \/ Flow(p)
    \/ \E id \in 1..MaxPurchases : ConfirmPayment(id)

SpecSales == InitSales /\ [][NextSales]_vars

\* ------------------------------------------------ the admin routes
\* The ticket routes and the statistics route, called by every kind of
\* caller, one request at a time.
NextAdmin ==
  \E caller \in Callers :
    \/ \E in \in TicketInputs :
          CreateTicket("h1", caller, in.price, in.stock, TicketIds)
    \/ \E t \in TicketIds, in \in ConcTicketInputs, hasStock \in BOOLEAN :
          UpdateTicket("h1", caller, t, in.price, hasStock, in.stock)
    \/ UpdateWrite("h1")
    \/ \E t \in TicketIds : DeleteTicket("h1", caller, t)
    \/ DeleteWrite("h1")
    \/ \E t \in TicketIds : ToggleFind("h1", caller, t)
    \/ ToggleSave("h1")
    \/ StatsOverview("h1", caller)

SpecAdmin == Init /\ [][NextAdmin]_vars

\* =================================================================
\* Properties
\* =================================================================

\* the line a validating handler is about to check cannot be sold
BadLine(p) ==
  LET item   == req[p].items[req[p].i]
      ticket == tickets[item.ticketId]
  IN \/ ~Live(item.ticketId)
     \/ ~ticket.isAvailable
     \/ (ticket.stock # Unlimited /\ item.quantity > ticket.stock)

Answered(p, op, status) ==
  req[p].pc = "done" /\ req[p].op = op /\ req[p].resp = status

\* C1: a purchase request with a line naming a missing ticket, an unavailable
\* ticket or more than a limited ticket's stock is answered 400; no step of
\* its validation, the rejecting one included, changes a purchase record or a
\* ticket, and the request has inserted no record, whatever lines came before.
C1_BadLineRejected ==
  [][\A p \in Procs :
       (req[p].pc = "validate" /\ req'[p] # req[p]) =>
          /\ purchases' = purchases
          /\ tickets' = tickets
          /\ req[p].id = 0
          /\ (BadLine(p) => /\ req'[p].pc = "done"
                            /\ req'[p].resp = 400
                            /\ req'[p].id = 0)]_vars

\* a request was rejected at its second line, the first having been accepted
C1_Witness == Answered("h1", "purchase", 400) /\ req["h1"].i = 2

C3_FreshPurchaseValidates ==
  [][(/\ Answered("h1", "purchase", 201)
      /\ req'["h1"] # req["h1"]
      /\ req'["h1"].op = "validate"
      /\ req'["h1"].code = purchases[req["h1"].id].qrCode
      /\ now <= purchases[req["h1"].id].validUntil)
        => req'["h1"].resp = 200]_vars

\* C4: every stored purchase has total = subtotal + tax - discount, its
\* subtotal is the sum of its line totals and every line total is
\* unitPrice * quantity.
C4_Totals ==
  \A k \in 1..Len(purchases) :
    LET pu == purchases[k]
    IN /\ Len(pu.items) >= 1
       /\ pu.total = pu.subtotal + pu.tax - pu.discount
       /\ pu.subtotal = SumTotals(pu.items)
       /\ \A n \in 1..Len(pu.items) :
            pu.items[n].totalPrice = pu.items[n].unitPrice * pu.items[n].quantity

\* a stored purchase of two lines with a tax
C4_Witness ==
  \E k \in 1..Len(purchases) :
    Len(purchases[k].items) = 2 /\ purchases[k].tax > 0

\* In Spec a ticket keeps the price it was created with, and the price tells
\* which input created it: the stock it was created with.
createdStock(t) ==
  (CHOOSE in \in TicketInputs : in.price = tickets[t].price).stock

\* units of ticket t asked for by the lines of a purchase
RECURSIVE QuantityOf(_, _)
QuantityOf(items, t) ==
  IF items = <<>> THEN 0
  ELSE (IF Head(items).ticketId = t THEN Head(items).quantity ELSE 0)
       + QuantityOf(Tail(items), t)

\* C5: a purchase of 2 units of a ticket priced 1000 has subtotal 2000, tax
\* 360 and total 2360; when a purchase is answered 201, every limited ticket
\* whose stock s covered the quantity q bought is left with s - q, so the
\* ticket created with stock 5 is left with 3.
C5_Example ==
  /\ \A k \in 1..Len(purchases) :
       LET pu == purchases[k]
       IN (Len(pu.items) = 1 /\ pu.items[1].unitPrice = 1000
                             /\ pu.items[1].quantity = 2)
            => (pu.subtotal = 2000 /\ pu.tax = 360 /\ pu.total = 2360)
  /\ Answered("h1", "purchase", 201)
       => \A t \in TicketIds :
            LET q == QuantityOf(purchases[1].items, t)
            IN (q > 0 /\ createdStock(t) # Unlimited /\ createdStock(t) >= q)
                 => tickets[t].stock = createdStock(t) - q

\* the worked example: price 1000, stock 5, quantity 2
C5_Witness ==
  /\ Answered("h1", "purchase", 201)
  /\ Len(purchases[1].items) = 1
  /\ purchases[1].total = 2360
  /\ tickets[purchases[1].items[1].ticketId].stock = 3

\* C6: a code presented for a record that is not confirmed is refused with
\* the reason naming the missing confirmation, whatever the date; for a
\* confirmed record it is refused as expired when validUntil is before now
\* and accepted when now <= validUntil; discount, notes and the state of the
\* ticket play no part.
C6_ValidateOutcome ==
  \A p \in Procs :
    (req[p].pc = "done" /\ req[p].op = "validate" /\ req[p].id # 0) =>
       LET pu == purchases[req[p].id]
       IN /\ pu.status # "confirmed"
               => (req[p].resp = 400 /\ req[p].msg = "Achat non confirme")
          /\ (pu.status = "confirmed" /\ pu.validUntil < now)
               => (req[p].resp = 400 /\ req[p].msg = "Achat expire")
          /\ (pu.status = "confirmed" /\ now <= pu.validUntil)
               => (req[p].resp = 200 /\ req[p].msg = "Billet valide")

\* a confirmed record presented on its last day of validity was accepted
C6_Witness ==
  /\ Answered("h1", "validate", 200)
  /\ req["h1"].id = 1
  /\ now = purchases[1].validUntil

\* C7 (as claimed): once the cancellation of a confirmed purchase is answered
\* 200 the record is cancelled, its notes end with the reason, and every
\* limited ticket of its lines has the stock it had before the purchase.
C7_CancelRestoresStock ==
  Answered("h1", "cancel", 200) =>
     LET pu == purchases[req["h1"].id]
     IN /\ pu.status = "cancelled"
        /\ Len(pu.notes) > 0
        /\ pu.notes[Len(pu.notes)] \in {cancelNote(reason) : reason \in Reasons}
        /\ \A t \in TicketIds :
             (QuantityOf(pu.items, t) > 0 /\ createdStock(t) # Unlimited)
                => tickets[t].stock = createdStock(t)

\* C8: the step that finds the requester's purchase in a status other than
\* confirmed ends the cancel request with an error and changes no purchase
\* record (status, notes) and no ticket (stock).
C8_CancelRefused ==
  [][\A p \in Procs :
       (/\ req[p].pc = "cancelFind"
        /\ req'[p] # req[p]
        /\ Owned(req[p].id, req[p].user)
        /\ purchases[req[p].id].status # "confirmed")
         => /\ req'[p].pc = "done"
            /\ req'[p].resp >= 400
            /\ purchases' = purchases
            /\ tickets' = tickets]_vars

\* a cancel request of the owner was refused on a cancelled record
C8_Witness ==
  /\ req["h1"].pc = "done" /\ req["h1"].op = "cancel"
  /\ req["h1"].resp >= 400
  /\ Owned(req["h1"].id, "alice")
  /\ purchases[req["h1"].id].status = "cancelled"

\* C9 (as claimed): a cancel request is answered 404 when the requester owns
\* no purchase of that id, 400 when the purchase is not confirmed, and 200
\* only when the record is cancelled.
C9_CancelStatusCodes ==
  /\ [][\A p \in Procs :
          (req[p].pc = "cancelFind" /\ req'[p] # req[p]) =>
             /\ ~Owned(req[p].id, req[p].user) => req'[p].resp = 404
             /\ (/\ Owned(req[p].id, req[p].user)
                 /\ purchases[req[p].id].status # "confirmed")
                   => req'[p].resp = 400]_vars
  /\ [](\A p \in Procs :
          (req[p].pc = "done" /\ req[p].op = "cancel" /\ req[p].resp = 200)
             => purchases[req[p].id].status = "cancelled")

\* the code is the code of a stored record
Collides(code) == code \in {purchases[k].qrCode : k \in 1..Len(purchases)}

UniqueCodes ==
  \A j, k \in 1..Len(purchases) :
    j # k => purchases[j].qrCode # purchases[k].qrCode

\* C10: no two stored purchases share a qrCode; the insert of a record whose
\* code is already stored fails, and it changes no stored record, adds none
\* and changes no ticket.
C10_UniqueCode ==
  /\ [][\A p \in Procs :
          (req[p].pc = "save" /\ req'[p] # req[p] /\ Collides(req[p].code))
             => /\ req'[p].pc = "done"
                /\ req'[p].resp = 500
                /\ purchases' = purchases
                /\ tickets' = tickets]_vars
  /\ []UniqueCodes

\* an insert failed on a stored code
C10_Witness ==
  \E p \in Procs :
    /\ Answered(p, "purchase", 500)
    /\ req[p].msg = "E11000 duplicate key"
    /\ Collides(req[p].code)

\* the method op was just called on ticket 1 by h1 and returned
Called(op) == req["h1"].pc = "done" /\ req["h1"].op = op

\* C11: isAvailableForPurchase(q) answers true exactly when the ticket is
\* marked available and its stock is unlimited or at least q: false for any
\* q above a limited stock, false for any q on an unavailable ticket; the
\* call changes neither the document nor the stored ticket.
C11_IsAvailableForPurchase ==
  [][(req'["h1"] # req["h1"] /\ req'["h1"].op = "isAvailableForPurchase") =>
       LET t  == req'["h1"].id
           q  == req'["h1"].i
           tk == tickets[t]
       IN /\ (req'["h1"].msg = "true")
               <=> (tk.isAvailable /\ (tk.stock = -1 \/ tk.stock >= q))
          /\ req'["h1"].msg \in {"true", "false"}
          /\ (tk.stock # -1 /\ q > tk.stock) => req'["h1"].msg = "false"
          /\ ~tk.isAvailable => req'["h1"].msg = "false"
          /\ req'["h1"].doc = tk
          /\ tickets' = tickets
          /\ purchases' = purchases]_vars

\* the answer false for a quantity above the stock of an available ticket
C11_Witness ==
  /\ Called("isAvailableForPurchase")
  /\ req["h1"].msg = "false"
  /\ tickets[1].isAvailable
  /\ tickets[1].stock = 2 /\ req["h1"].i = 3

\* C14: releaseStock(q) called right after a reserveStock(q) that reserved
\* (limited stock s, 1 <= q <= s) stores the stock s again.
C14_ReserveThenRelease ==
  [][(/\ Called("reserveStock")
      /\ req["h1"].msg = "saved"
      /\ req'["h1"] # req["h1"]
      /\ req'["h1"].op = "releaseStock"
      /\ req'["h1"].id = req["h1"].id
      /\ req'["h1"].i = req["h1"].i)
        => LET s == req["h1"].doc.stock
               q == req["h1"].i
           IN /\ s >= 0 /\ 1 <= q /\ q <= s
              /\ tickets[req["h1"].id].stock = s - q
              /\ tickets'[req["h1"].id].stock = s]_vars

\* reserveStock(2) has just stored 0 for a stock of 2, and releaseStock(2)
\* can be called next
C14_Witness ==
  /\ Called("reserveStock")
  /\ req["h1"].msg = "saved"
  /\ req["h1"].i = 2
  /\ req["h1"].doc.stock = 2
  /\ tickets[1].stock = 0
  /\ tickets[1].stock + req["h1"].i <= MaxStock

\* C15: refundPurchase goes through exactly from confirmed and cancelled,
\* storing the status refunded and the notes with the reason appended; from
\* pending, refunded and expired it is rejected and the record is unchanged;
\* no ticket changes in either case.
C15_RefundPurchase ==
  [][(req'["h1"] # req["h1"] /\ req'["h1"].op = "refundPurchase") =>
       LET id == req'["h1"].id
           pu == purchases[id]
       IN /\ tickets' = tickets
          /\ IF pu.status \in {"confirmed", "cancelled"}
             THEN /\ req'["h1"].msg = "saved"
                  /\ purchases' =
                       [purchases EXCEPT
                          ![id].status = "refunded",
                          ![id].notes = pu.notes \o
                             <<[tag |-> "Rembourse",
                                reason |-> req'["h1"].reason]>>]
             ELSE /\ pu.status \in {"pending", "refunded", "expired"}
                  /\ req'["h1"].msg = "rejected"
                  /\ purchases' = purchases]_vars

\* a refund went through on a record that had a note
C15_Witness ==
  /\ Called("refundPurchase")
  /\ req["h1"].msg = "saved"
  /\ purchases[1].status = "refunded"
  /\ Len(purchases[1].notes) = 2

\* C12 (as claimed): in the commit loop of a purchase, reserveStock(q) on a
\* limited ticket with stock >= q decrements the document by q and its save
\* stores that value; with stock < q the call is a failure for the request,
\* which ends with an error, the stored stock unchanged.
C12_ReserveStockOutcome ==
  [][\A p \in Procs :
       /\ (/\ req[p].pc = "reserve"
           /\ req'[p] # req[p]
           /\ Live(purchases[req[p].id].items[req[p].i].ticketId))
            => LET item == purchases[req[p].id].items[req[p].i]
                   tk   == tickets[item.ticketId]
               IN /\ tickets' = tickets
                  /\ (tk.stock # -1 /\ tk.stock >= item.quantity)
                       => /\ req'[p].pc = "reserveSave"
                          /\ req'[p].doc.stock = tk.stock - item.quantity
                  /\ (tk.stock # -1 /\ tk.stock < item.quantity)
                       => /\ req'[p].pc = "done"
                          /\ req'[p].resp >= 400
       /\ (req[p].pc = "reserveSave" /\ req'[p] # req[p] /\ req'[p].pc # "done")
            => LET t == purchases[req[p].id].items[req[p].i].ticketId
               IN tickets'[t].stock = req[p].doc.stock]_vars

\* C13: while a ticket's stock is the unlimited sentinel, reserveStock and
\* releaseStock go through for any quantity without a save, and no step of
\* any interleaving of purchases and cancellations changes the stored -1.
C13_UnlimitedStockKept ==
  [][/\ \A t \in TicketIds :
          (Live(t) /\ tickets[t].stock = -1) => tickets'[t].stock = -1
     /\ \A p \in Procs :
          (/\ req[p].pc \in {"reserve", "release"}
           /\ req'[p] # req[p]
           /\ tickets[purchases[req[p].id].items[req[p].i].ticketId].stock = -1)
            => /\ req'[p].pc \notin {"reserveSave", "releaseSave"}
               /\ ~(req'[p].pc = "done" /\ req'[p].resp >= 400)]_vars

\* an unlimited ticket after a purchase of it was cancelled
C13_Witness ==
  /\ tickets[1].stock = -1
  /\ tickets[1].purchaseCount > 0
  /\ \E p \in Procs : /\ Answered(p, "cancel", 200)
                      /\ purchases[req[p].id].status = "cancelled"

\* both handlers were answered 201 for purchases of ticket 1, none of them
\* cancelled since, that together bought more than the stock it was created
\* with: each passed the availability check before the other reserved
RaceDone ==
  /\ Len(purchases) = 2
  /\ \A p \in Procs : Answered(p, "purchase", 201)
  /\ \A k \in 1..2 : purchases[k].status \in {"pending", "confirmed"}
  /\ createdStock(1) # -1
  /\ QuantityOf(purchases[1].items, 1) + QuantityOf(purchases[2].items, 1)
       > createdStock(1)

C16_ValidateReadsOnly ==
  [][(req'["h1"].pc = "done" /\ req'["h1"].op = "validate") =>
       /\ purchases' = purchases
       /\ tickets' = tickets
       /\ (/\ req["h1"].pc = "done" /\ req["h1"].op = "validate"
           /\ req["h1"].code = req'["h1"].code)
            => /\ req'["h1"].resp = req["h1"].resp
               /\ req'["h1"].msg = req["h1"].msg
               /\ req'["h1"].id = req["h1"].id]_vars

\* the code of a confirmed record was accepted before its last day
C16_Witness ==
  /\ Answered("h1", "validate", 200)
  /\ purchases[1].status = "confirmed"
  /\ now < purchases[1].validUntil

\* C17: for a non-empty code the validation route answers 404 exactly when
\* no stored record carries the code, 400 with the reason exactly when the
\* record is not confirmed or is past validUntil, 200 exactly when it is
\* confirmed and not past validUntil, and nothing else.
C17_ValidateStatusCodes ==
  \A p \in Procs :
    (req[p].pc = "done" /\ req[p].op = "validate" /\ req[p].code # <<0, "">>)
      => LET c     == req[p].code
             found == {k \in 1..Len(purchases) : purchases[k].qrCode = c}
             valid == \E k \in found : /\ purchases[k].status = "confirmed"
                                       /\ now <= purchases[k].validUntil
         IN /\ req[p].resp \in {200, 400, 404}
            /\ (req[p].resp = 404) <=> (found = {})
            /\ (req[p].resp = 400) <=> (found # {} /\ ~valid)
            /\ (req[p].resp = 200) <=> valid
            /\ (req[p].resp = 400)
                 => req[p].msg \in {"Achat non confirme", "Achat expire"}

\* a code no record carries was answered 404
C17_Witness ==
  /\ Answered("h1", "validate", 404)
  /\ req["h1"].code = <<0, "Z">>
  /\ Len(purchases) > 0

\* C18: a purchase is returned by GET /purchases/:id, listed by GET
\* /purchases and cancelled only for the caller whose id is its userId; any
\* other authenticated caller, an admin included, is answered 404 and
\* nothing changes.
C18_OwnerOnly ==
  [][\A p \in Procs :
       /\ (req'[p] # req[p] /\ req'[p].op = "get")
            => LET id == req'[p].id
                   mine == /\ id \in 1..Len(purchases)
                           /\ purchases[id].userId = req'[p].user
               IN /\ req'[p].resp = (IF mine THEN 200 ELSE 404)
                  /\ purchases' = purchases /\ tickets' = tickets
       /\ (req'[p] # req[p] /\ req'[p].op = "list")
            => /\ \A k \in req'[p].data : purchases[k].userId = req'[p].user
               /\ purchases' = purchases /\ tickets' = tickets
       /\ (/\ req[p].pc = "cancelFind" /\ req'[p] # req[p]
           /\ ~(/\ req[p].id \in 1..Len(purchases)
                /\ purchases[req[p].id].userId = req[p].user))
            => /\ req'[p].pc = "done" /\ req'[p].resp = 404
               /\ purchases' = purchases /\ tickets' = tickets
       /\ (req[p].op = "cancel" /\ req[p].pc # "done")
            => ((purchases' # purchases \/ tickets' # tickets)
                  => purchases[req[p].id].userId = req[p].user)]_vars

\* a caller other than alice asked to cancel her confirmed purchase and was
\* answered 404
C18_Witness ==
  /\ Answered("h1", "cancel", 404)
  /\ req["h1"].id = 1
  /\ purchases[1].userId = "alice"
  /\ purchases[1].status = "confirmed"

\* C19: a ticket is created, changed or deleted only by a request of an
\* active admin, and the statistics are answered 200 only to one; the same
\* request of a user without the role is answered 403 and that of a caller
\* who is not authenticated (no valid token, deactivated account) 401, and
\* neither changes a ticket.
C19_AdminOnly ==
  [][/\ (/\ req["h1"].pc \in {"idle", "done"}
         /\ req'["h1"] # req["h1"]
         /\ req'["h1"].op \in {"ticket", "stats"})
          => LET c == req'["h1"].user
             IN /\ c \in {"alice", "bob"}
                     => /\ req'["h1"].pc = "done" /\ req'["h1"].resp = 403
                        /\ tickets' = tickets
                /\ c \in {"anonymous", "retired"}
                     => /\ req'["h1"].pc = "done" /\ req'["h1"].resp = 401
                        /\ tickets' = tickets
                /\ c \in {"alice", "bob", "anonymous", "retired", "admin"}
                /\ (req'["h1"].op = "stats" /\ c = "admin")
                     => req'["h1"].resp = 200
     /\ tickets' # tickets
          => \/ /\ req["h1"].pc \in {"idle", "done"}
                /\ req'["h1"].op = "ticket" /\ req'["h1"].user = "admin"
             \/ /\ req["h1"].pc \notin {"idle", "done"}
                /\ req["h1"].op = "ticket" /\ req["h1"].user = "admin"]_vars

\* a user without the admin role was refused while a ticket exists, and the
\* ticket is as an admin created it
C19_Witness ==
  /\ Answered("h1", "ticket", 403)
  /\ req["h1"].user = "bob"
  /\ req["h1"].id = 1
  /\ tickets[1] = newTicket(1000, 5)


\* ------------------------------------------- a ticket deleted mid-purchase
\* Both tickets exist; one shopper buys while an administrator deletes.
InitCommit ==
  /\ \E in1, in2 \in TicketInputs :
       /\ in1.price # in2.price
       /\ tickets = [t \in TicketIds |->
                       IF t = 1 THEN newTicket(in1.price, in1.stock)
                       ELSE newTicket(in2.price, in2.stock)]
  /\ purchases = <<>>
  /\ req = [p \in Procs |-> Idle]
  /\ now = 0
  /\ users = InitialUsers

NextCommit ==
  \/ \E items \in ItemLists : StartPurchase("h1", "alice", items, 1)
  \/ ValidateLine("h1")
  \/ EncodingFailed("h1")
  \/ SavePurchase("h1")
  \/ ReserveFetch("h1")
  \/ ReserveSave("h1")
  \/ StatsSave("h1")
  \/ \E t \in TicketIds : DeleteTicket("h2", "admin", t)
  \/ DeleteWrite("h2")

SpecCommit == InitCommit /\ [][NextCommit]_vars

\* the stock reserveStock leaves after the lines of a list, in order
RECURSIVE ReservedStock(_, _, _)
ReservedStock(items, t, stock) ==
  IF items = <<>> THEN stock
  ELSE ReservedStock(Tail(items), t,
         IF Head(items).ticketId = t
         THEN reserveStock([stock |-> stock], Head(items).quantity).stock
         ELSE stock)

RECURSIVE RevenueOf(_, _)
RevenueOf(items, t) ==
  IF items = <<>> THEN 0
  ELSE (IF Head(items).ticketId = t THEN Head(items).totalPrice ELSE 0)
       + RevenueOf(Tail(items), t)

\* the purchase request failed in its commit loop, at line req.i
CommitFailed(p) == Answered(p, "purchase", 500) /\ req[p].id # 0

\* C21: when the commit loop fails on a line after the record was inserted
\* (its ticket was deleted since validation), the failing step answers 500
\* and changes neither a purchase record nor a ticket; afterwards the record
\* is still stored, every surviving ticket carries the reservations and the
\* counters of the lines before the failing one, and nothing of the failing
\* line or of the lines after it.
C21_CommitNotRolledBack ==
  /\ [][(req["h1"].pc \in {"reserve", "reserveSave", "statsSave"}
          /\ req'["h1"].pc = "done" /\ req'["h1"].resp # 201)
         => /\ req'["h1"].resp = 500
            /\ purchases' = purchases
            /\ tickets' = tickets]_vars
  /\ [](CommitFailed("h1") =>
         LET r     == req["h1"]
             items == purchases[r.id].items
             done  == SubSeq(items, 1, r.i - 1)
         IN /\ Len(purchases) = 1 /\ r.id = 1
            /\ ~Live(items[r.i].ticketId)
            /\ \A t \in TicketIds : Live(t) =>
                 /\ tickets[t].stock = ReservedStock(done, t, createdStock(t))
                 /\ tickets[t].purchaseCount = QuantityOf(done, t)
                 /\ tickets[t].revenue = RevenueOf(done, t))

\* the second line failed after the first was committed on a limited ticket
C21_Witness ==
  /\ CommitFailed("h1") /\ req["h1"].i = 2
  /\ Len(purchases) = 1 /\ Len(purchases[1].items) = 2
  /\ LET t == purchases[1].items[1].ticketId
     IN /\ Live(t) /\ tickets[t].purchaseCount > 0
        /\ tickets[t].stock # Unlimited
        /\ tickets[t].stock < createdStock(t)

\* C22: no step lowers the purchaseCount or the revenue of a ticket: a
\* purchase line adds its quantity and its line total, a cancellation and
\* every other operation leave both as they were or higher.
C22_CountersNeverDecrease ==
  [][\A t \in TicketIds :
       (tickets[t].st = "live" /\ tickets'[t].st = "live") =>
          /\ tickets'[t].purchaseCount >= tickets[t].purchaseCount
          /\ tickets'[t].revenue >= tickets[t].revenue]_vars

\* ------------------------------------------------------ purchases over days
\* The clock advances between the steps of the handlers; the ticket on sale
\* was created with any validity the schema allows.
MaxDay == 2
TicketValidities == {1, DefaultValidityDays, 365}

Tick ==
  /\ now < MaxDay
  /\ now' = now + 1
  /\ UNCHANGED <<tickets, purchases, req, users>>

InitValidity ==
  /\ \E d \in TicketValidities, s \in {Unlimited, 2} :
       tickets = [t \in TicketIds |->
                    IF t = 1 THEN [newTicket(500, s) EXCEPT !.validityDays = d]
                    ELSE NoTicket("none")]
  /\ purchases = <<>>
  /\ req = [p \in Procs |-> Idle]
  /\ now = 0
  /\ users = InitialUsers

NextValidity ==
  \/ Tick
  \/ \E items \in ConcItemLists :
        StartPurchase("h1", "alice", items, MaxPurchases)
  \/ \E id \in 1..MaxPurchases, reason \in Reasons :
        StartCancel("h1", "alice", id, reason)
  \/ Flow("h1")
  \/ \E id \in 1..MaxPurchases : ConfirmPayment(id)

SpecValidity == InitValidity /\ [][NextValidity]_vars

\* C23: a record is inserted with validFrom at the time of the insertion and
\* validUntil exactly 30 days later, whatever validityDays its tickets carry;
\* no later step changes either date, so validFrom <= validUntil and
\* validUntil = validFrom + 30 in every stored record.
C23_ThirtyDays ==
  /\ [][/\ Len(purchases') >= Len(purchases)
        /\ \A k \in 1..Len(purchases) :
             /\ purchases'[k].validFrom = purchases[k].validFrom
             /\ purchases'[k].validUntil = purchases[k].validUntil
        /\ \A n \in (Len(purchases) + 1)..Len(purchases') :
             /\ purchases'[n].validFrom = now
             /\ purchases'[n].validUntil = now + 30]_vars
  /\ [](\A k \in 1..Len(purchases) :
           /\ purchases[k].validFrom <= purchases[k].validUntil
           /\ purchases[k].validUntil = purchases[k].validFrom + 30)

\* a purchase made on a later day of a ticket valid for one day or a year
C23_Witness ==
  /\ Len(purchases) = 2
  /\ purchases[2].validFrom > purchases[1].validFrom
  /\ purchases[2].validFrom > purchases[2].qrCode[1]
  /\ tickets[1].validityDays # 30
  /\ purchases[1].status = "cancelled"

\* ------------------------------------------- tickets edited after a sale
\* A store holding one purchase record; the administrator updates, toggles
\* and deletes the ticket it names, the owner reads and cancels the record.
NextEdits ==
  \/ \E in \in TicketInputs, hasStock \in BOOLEAN :
        UpdateTicket("h1", "admin", 1, in.price, hasStock, in.stock)
  \/ UpdateWrite("h1")
  \/ DeleteTicket("h1", "admin", 1)
  \/ DeleteWrite("h1")
  \/ ToggleFind("h1", "admin", 1)
  \/ ToggleSave("h1")
  \/ GetPurchase("h1", "alice", 1)
  \/ \E reason \in Reasons : StartCancel("h1", "alice", 1, reason)
  \/ CancelFind("h1")
  \/ CancelSave("h1")
  \/ ReleaseFetch("h1")
  \/ ReleaseSave("h1")

SpecEdits == InitStore /\ [][NextEdits]_vars

\* C24: the lines and the totals of a stored purchase are a snapshot: no
\* update of the ticket's price, stock or availability, no deletion of the
\* ticket and no later request changes the record's lines (ticket, quantity,
\* unit price, line total), its subtotal, its tax or its total.
C24_Snapshot ==
  [][/\ Len(purchases') = Len(purchases)
     /\ \A k \in 1..Len(purchases) :
          /\ purchases'[k].items = purchases[k].items
          /\ purchases'[k].subtotal = purchases[k].subtotal
          /\ purchases'[k].tax = purchases[k].tax
          /\ purchases'[k].total = purchases[k].total]_vars

\* the ticket was repriced by an update, and the record still reads 500
C24_Witness ==
  /\ Answered("h1", "ticket", 200)
  /\ Live(1) /\ tickets[1].price = 1000
  /\ purchases[1].items[1].unitPrice = 500
  /\ purchases[1].subtotal = 500

\* ------------------------------------------------ bodies naming a customer
\* Purchase requests whose body does or does not carry customer.userId.
NextBody ==
  \/ \E u \in Users, customer \in Users \cup {NoUserId},
         items \in ConcItemLists :
        PostPurchase("h1", u, customer, items, MaxPurchases)
  \/ ValidateLine("h1")
  \/ EncodingFailed("h1")
  \/ SavePurchase("h1")
  \/ ReserveFetch("h1")
  \/ ReserveSave("h1")
  \/ StatsSave("h1")
  \/ \E u \in Users : ListPurchases("h2", u)

SpecBody == InitSales /\ [][NextBody]_vars

\* C25: every record is inserted with customer.userId equal to the id of the
\* authenticated user of the inserting request, whatever the body carries.
C25_OwnerIsCaller ==
  [][\A p \in Procs :
       (req[p].pc = "save" /\ Len(purchases') = Len(purchases) + 1
        /\ req'[p].pc = "reserve")
       => purchases'[Len(purchases')].userId = req[p].user]_vars

\* C26: with requests one after the other and no cancellation, ticket update
\* or deletion, once a purchase is answered 201 every limited ticket has lost
\* exactly the quantities of the purchase's lines that name it, also when
\* several lines name the same ticket.
C26_StockAccountsForLines ==
  (Answered("h1", "purchase", 201) /\ Len(purchases) = 1) =>
     \A t \in TicketIds :
        (Live(t) /\ tickets[t].stock # Unlimited) =>
           createdStock(t) - tickets[t].stock
              = QuantityOf(purchases[1].items, t)

\* the cancellation request of handler p for purchase id got past
\* cancelPurchase: it is in the loop that gives the stock back, or answered 200
Releasing(p, id) ==
  /\ req[p].op = "cancel" /\ req[p].id = id
  /\ \/ req[p].pc \in {"release", "releaseSave"}
     \/ Answered(p, "cancel", 200)

\* C27: whatever the interleaving of the cancellation requests for one
\* purchase, at most one of them gets past cancelPurchase: at most one runs
\* the loop that adds the lines' quantities back to the stock, and at most
\* one is answered 200.
C27_CancelledOnce ==
  \A id \in 1..Len(purchases) :
     Cardinality({p \in Procs : Releasing(p, id)}) <= 1

\* ------------------------------------------------- the life of a status
\* A stored purchase in any status: cancellation requests interleave, the
\* code is presented before and after the end of validity, and
\* refundPurchase, which no route calls, is called between requests.
NextStatus ==
  \/ \E p \in Procs :
        \/ \E u \in Users, reason \in Reasons : StartCancel(p, u, 1, reason)
        \/ CancelFind(p)
        \/ CancelSave(p)
        \/ ReleaseFetch(p)
        \/ ReleaseSave(p)
  \/ \E code \in Codes : ValidateCode("h1", code)
  \/ \E reason \in Reasons :
        (\A p \in Procs : Free(p)) /\ CallRefundPurchase("h1", 1, reason)

SpecStatus == InitStore /\ [][NextStatus]_vars

StatusChanges == {<<"confirmed", "cancelled">>, <<"confirmed", "refunded">>,
                  <<"cancelled", "refunded">>}

Emails    == {"bob", "carol", "Carol", "dave"}
Passwords == {"pw", "bad"}

normalizeEmail(email) == IF email = "Carol" THEN "carol" ELSE email

\* mutant: no unique index on email
EmailNeverTaken(email) == FALSE

\* the unique index on email
EmailTaken(email) == \E k \in 1..Len(users) : users[k].email = email

\* bcrypt.compare of the candidate with the stored hash
comparePassword(user, candidate) == user.password = candidate

\* the response carries a token
Token == "token"

\* POST /api/auth/register : validateUserRegister, then User.findOne({email})
RegisterFind(p, email, password) ==
  /\ Free(p)
  /\ LET r == [Idle EXCEPT !.op = "register", !.user = normalizeEmail(email),
                           !.password = password]
     IN IF accountOf(r.user) # 0
        THEN req' = [req EXCEPT ![p] = AdminDone(r, 400)]
        ELSE req' = [req EXCEPT ![p] = [r EXCEPT !.pc = "registerSave"]]
  /\ UNCHANGED <<tickets, purchases, now, users>>

\* new User({..., role: 'user'}) ; user.save() ; generateToken
RegisterSave(p) ==
  /\ req[p].pc = "registerSave"
  /\ LET r == req[p]
     IN IF EmailTaken(r.user)
        THEN /\ req' = [req EXCEPT ![p] =
                          AdminDone([r EXCEPT !.msg = "E11000 duplicate key"],
                                    500)]
             /\ UNCHANGED users
        ELSE /\ users' = Append(users, newUser(r.user, r.password, "user"))
             /\ req' = [req EXCEPT ![p] =
                          AdminDone([r EXCEPT !.msg = Token,
                                              !.id = Len(users) + 1], 201)]
  /\ UNCHANGED <<tickets, purchases, now>>

\* what the two login handlers do with the document they found (k, or 0):
\* 401 unless the password matches and the account is active
loginFound(p, r, k) ==
  IF k = 0
  THEN req' = [req EXCEPT ![p] = AdminDone(r, 401)]
  ELSE IF ~comparePassword(users[k], r.password)
  THEN req' = [req EXCEPT ![p] = AdminDone(r, 401)]
  ELSE IF ~users[k].isActive
  THEN req' = [req EXCEPT ![p] =
                 AdminDone([r EXCEPT !.msg = "Compte desactive"], 401)]
  ELSE req' = [req EXCEPT ![p] = [r EXCEPT !.pc = "loginSave", !.id = k]]

\* POST /api/auth/login : User.findOne({email}), comparePassword, isActive
LoginFind(p, email, password) ==
  /\ Free(p)
  /\ LET r == [Idle EXCEPT !.op = "login", !.user = normalizeEmail(email),
                           !.password = password]
     IN loginFound(p, r, accountOf(r.user))
  /\ UNCHANGED <<tickets, purchases, now, users>>

\* POST /api/auth/admin/login : User.findOne({email, role: 'admin'})
AdminLoginFind(p, email, password) ==
  /\ Free(p)
  /\ LET r == [Idle EXCEPT !.op = "adminLogin",
                           !.user = normalizeEmail(email),
                           !.password = password]
         k == accountOf(r.user)
     IN loginFound(p, r, IF k # 0 /\ users[k].role = "admin" THEN k ELSE 0)
  /\ UNCHANGED <<tickets, purchases, now, users>>

\* user.updateLastLogin() and its save(), then the token
LoginSave(p) ==
  /\ req[p].pc = "loginSave"
  /\ LET r == req[p]
     IN /\ users' = [users EXCEPT ![r.id].lastLogin = now]
        /\ req' = [req EXCEPT ![p] = AdminDone([r EXCEPT !.msg = Token], 200)]
  /\ UNCHANGED <<tickets, purchases, now>>

\* registrations and logins interleaved at their awaits
NextAccounts ==
  \E p \in Procs :
    \/ \E email \in Emails, password \in Passwords :
          RegisterFind(p, email, password)
    \/ RegisterSave(p)
    \/ \E email \in Emails, password \in Passwords :
          LoginFind(p, email, password)
    \/ LoginSave(p)

SpecAccounts == Init /\ [][NextAccounts]_vars

AccountsOf(email) == {k \in 1..Len(users) : users[k].email = email}

\* C29: no two accounts share an email, whatever the interleaving of the
\* registration requests.  A step of a registration for an address that
\* already has an account creates nothing, changes no account and ends the
\* request with an error (400 or 500) and no token; a registration changes
\* no existing account; and once a registration is answered there is exactly
\* one account with its address, also when two requests raced for it.
C29_UniqueEmail ==
  /\ [](\A j, k \in 1..Len(users) : users[j].email = users[k].email => j = k)
  /\ [](\A p \in Procs :
          (req[p].pc = "done" /\ req[p].op = "register") =>
             Cardinality(AccountsOf(req[p].user)) = 1)
  /\ [][\A p \in Procs :
          (req'[p] # req[p] /\ req'[p].op = "register") =>
            /\ SubSeq(users', 1, Len(users)) = users
            /\ AccountsOf(req'[p].user) # {} =>
                 /\ users' = users
                 /\ req'[p].pc = "done"
                 /\ req'[p].resp \in {400, 500}
                 /\ req'[p].msg # Token]_vars

\* two requests raced for one new address, typed in two ways: one was
\* answered 201 with a token, the other 500, and one account exists
C29_Witness ==
  /\ req["h1"].pc = "done" /\ req["h1"].op = "register"
  /\ req["h2"].pc = "done" /\ req["h2"].op = "register"
  /\ req["h1"].user = "carol" /\ req["h2"].user = "carol"
  /\ req["h1"].resp = 201 /\ req["h1"].msg = Token
  /\ req["h2"].resp = 500
  /\ Cardinality(AccountsOf("carol")) = 1

\* -------------------------------------------- requests of any account
\* requireUser, after authenticate: 403, or 0 when it calls next()
requireUser(caller) == IF roleOf(caller) \notin {"user", "admin"} THEN 403 ELSE 0

\* the middleware chain authenticate, requireUser of the purchase routes
userGate(caller) ==
  IF authenticate(caller) # 0 THEN authenticate(caller)
  ELSE requireUser(caller)

\* POST /api/purchases sent by any caller
PurchaseAs(p, caller, items) ==
  IF userGate(caller) # 0
  THEN /\ Free(p)
       /\ req' = [req EXCEPT ![p] =
                    AdminDone([Idle EXCEPT !.op = "purchase", !.user = caller],
                              userGate(caller))]
       /\ UNCHANGED <<tickets, purchases, now, users>>
  ELSE StartPurchase(p, caller, items, 1)

\* PATCH /api/purchases/:id/cancel sent by any caller
CancelAs(p, caller, id, reason) ==
  IF userGate(caller) # 0
  THEN /\ Free(p)
       /\ req' = [req EXCEPT ![p] =
                    AdminDone([Idle EXCEPT !.op = "cancel", !.user = caller,
                                           !.id = id],
                              userGate(caller))]
       /\ UNCHANGED <<tickets, purchases, now, users>>
  ELSE StartCancel(p, caller, id, reason)

\* an account is deactivated at the store; no route of the program does it
Deactivate(k) ==
  /\ k \in 1..Len(users)
  /\ users[k].isActive
  /\ users' = [users EXCEPT ![k].isActive = FALSE]
  /\ UNCHANGED <<tickets, purchases, req, now>>

AccountNames  == {"admin", "retired", "alice"}
AccessCallers == AccountNames \cup {"anonymous"}

\* One request at a time, sent by any caller, over a store with one ticket;
\* accounts log in and are deactivated between and during the requests.
NextAccess ==
  \/ \E email \in AccountNames, password \in Passwords :
        \/ LoginFind("h1", email, password)
        \/ AdminLoginFind("h1", email, password)
  \/ LoginSave("h1")
  \/ \E name \in AccountNames : Deactivate(accountOf(name))
  \/ \E caller \in AccessCallers, items \in ConcItemLists :
        PurchaseAs("h1", caller, items)
  \/ \E caller \in AccessCallers, reason \in Reasons :
        CancelAs("h1", caller, 1, reason)
  \/ \E caller \in AccessCallers : ToggleFind("h1", caller, 1)
  \/ ToggleSave("h1")
  \/ Flow("h1")
  \/ ConfirmPayment(1)

SpecAccess == InitSales /\ [][NextAccess]_vars

GuardedOps == {"purchase", "cancel", "ticket"}
LoginOps   == {"login", "adminLogin"}

\* C30: a request that names an account found deactivated is turned away in
\* its first step: a login or admin login ends with 401, no token and no
\* change of lastLogin or of any account; a request to a route behind
\* authenticate ends with 401 before its handler runs, so no ticket and no
\* purchase is changed by it.
C30_DeactivatedRejected ==
  [][\A p \in Procs :
       (Free(p) /\ req'[p] # req[p]
        /\ req'[p].op \in GuardedOps \cup LoginOps
        /\ accountOf(req'[p].user) # 0
        /\ ~users[accountOf(req'[p].user)].isActive)
       => /\ req'[p].pc = "done"
          /\ req'[p].resp = 401
          /\ req'[p].msg # Token
          /\ users' = users
          /\ tickets' = tickets
          /\ purchases' = purchases]_vars

\* alice logged in, her account was deactivated, and her purchase request
\* with the token she holds was answered 401
C30_Witness ==
  /\ Answered("h1", "purchase", 401) /\ req["h1"].user = "alice"
  /\ ~users[accountOf("alice")].isActive
  /\ users[accountOf("alice")].lastLogin # NoLogin
  /\ Live(1) /\ purchases = <<>>
====
